---- MODULE Spec2Model ----
(***************************************************************************)
(* Model of the definitions-to-documentation pipeline of secondlife/create: *)
(*   scripts/generate-docs.js   (generateFor, generateDocs)                 *)
(*   src/utils/lsl-definitions.ts (cache, mapper, accessors)                *)
(*                                                                          *)
(* Text is a sequence of tokens.  A token is either one character of free   *)
(* text or one literal piece of the page template; the marker comment is a  *)
(* single token, so String.indexOf(MARKER_COMMENT) is "the first position   *)
(* holding the marker token".                                               *)
(***************************************************************************)
EXTENDS Integers, Sequences, FiniteSets, TLC

VARIABLES
    fs,         \* pages on disk: a function from the existing paths to their text
    owned,      \* history: per existing page, length of the machine-owned header region
    dirs,       \* directories that exist
    cwd,        \* working directory of the node process
    last,       \* history: the last completed generateFor call
    fresh,      \* history: arguments of the last successful generateFor if the page is untouched since
    nruns,      \* number of generateFor calls made so far
    nedits,     \* number of contributor actions made so far
    raw,        \* lsl-definitions.ts: yaml.load(lslDefinitionsRaw), fixed for the process
    cachedDefinitions,  \* lsl-definitions.ts: the module-level cache
    nparse,     \* history: number of times the YAML was parsed and handed to the mapper
    ret,        \* history: outcome of the last accessor call
    ncalls,     \* number of accessor calls made so far
    defsFile,   \* src/definitions/lsl_definitions.yaml as js-yaml loads it
    gen,        \* the node process running generate-docs.js
    tasks,      \* generateFor calls that generateDocs started and did not await
    written,    \* history: the pages written by the current run of the generator
    nbatches,   \* number of runs of the generator so far
    outFile,    \* the file at OUTPUT_PATH (src/definitions/lsl_definitions.yaml), as bytes
    outDir,     \* dirname(OUTPUT_PATH) exists
    fetcher,    \* the process that runs fetch-definitions.js or the site's start-up
    netCalls,   \* history: number of fetch(url) calls made so far
    nprocs,     \* number of fetch commands and start-ups run so far
    norm        \* a tooltip and the results of normalizing it again and again

pageVars == <<fs, owned, dirs, cwd, last, fresh, nruns, nedits>>
cacheVars == <<raw, cachedDefinitions, nparse, ret, ncalls>>
docVars == <<defsFile, gen, tasks, written, nbatches>>
fetchVars == <<outFile, outDir, fetcher, netCalls, nprocs>>
vars == <<pageVars, cacheVars, docVars, fetchVars, norm>>
\* What the actions on one page, the accessor calls, and the generator leave alone.
notPage == <<cacheVars, docVars, fetchVars, norm>>
notCache == <<pageVars, docVars, fetchVars, norm>>
notDocs == <<cacheVars, fetchVars, norm, last, fresh, nruns, nedits>>
notFetch == <<pageVars, cacheVars, docVars, norm>>
notNorm == <<pageVars, cacheVars, docVars, fetchVars>>

(***************************************************************************)
(* Bounds of the model.                                                     *)
(***************************************************************************)
MaxRuns == 3
MaxEdits == 2
MaxCalls == 3
MaxArgs == 2
MaxBatches == 2
MaxProcs == 3
MaxLen == 4
MaxApply == 2

(***************************************************************************)
(* Text                                                                     *)
(***************************************************************************)
BS == "\\"
NL == "\n"
Undefined == <<"undefined">>

\* The generator process before it is started.
GenIdle ==
    [pc |-> "idle", loaded |-> FALSE, lslDefs |-> <<>>, log |-> <<>>, errors |-> {},
     exit |-> "none", started |-> FALSE, source |-> <<>>, fsBefore |-> <<>>,
     dirsBefore |-> {}]

\* No tooltip is being normalized.
NormIdle == [input |-> <<>>, outs |-> <<>>]

\* No response received.
NoResponse == [status |-> 0, body |-> <<>>]
\* No file at a path.
NoFile == [exists |-> FALSE, content |-> <<>>]

\* No fetch command and no start-up has run.
FetcherIdle ==
    [pc |-> "idle", caller |-> "none", called |-> FALSE, url |-> "", resp |-> NoResponse,
     text |-> <<>>, before |-> NoFile, dirBefore |-> FALSE, netBefore |-> 0,
     outcome |-> "none", error |-> <<>>, log |-> <<>>, exit |-> "none"]

MARKER_COMMENT == "{/* DO NOT EDIT ABOVE THIS LINE */}"

EXAMPLE_TEXT == "## Examples ... ## Notes ... ## See Also ...\n"

\* String.prototype.indexOf for a one-token needle: 0-based, -1 when absent.
IndexOf(s, tok) ==
    IF \E i \in 1..Len(s) : s[i] = tok
    THEN (CHOOSE i \in 1..Len(s) : s[i] = tok /\ \A j \in 1..(i - 1) : s[j] /= tok) - 1
    ELSE -1

\* String.prototype.substring(start), 0-based start.
Substring(s, start) == SubSeq(s, start + 1, Len(s))

\* tooltip.replace(/\\n/g, '\n'): every backslash followed by n becomes a newline,
\* scanning left to right over non-overlapping matches.
RECURSIVE ReplaceEscapedNewlines(_)
ReplaceEscapedNewlines(s) ==
    IF Len(s) = 0 THEN <<>>
    ELSE IF Len(s) >= 2 /\ s[1] = BS /\ s[2] = "n"
         THEN <<NL>> \o ReplaceEscapedNewlines(SubSeq(s, 3, Len(s)))
         ELSE <<s[1]>> \o ReplaceEscapedNewlines(Tail(s))

\* JavaScript truthiness of a value that is a string or undefined.
Truthy(v) == v /= Undefined /\ v /= <<>>

\* name.toLowerCase() on the entry names of the model.
ToLowerCase(name) ==
    CASE name = "llAbs" -> "llabs"
      [] name = "LLABS" -> "llabs"
      [] name = "llSecret" -> "llsecret"
      [] name = "AGENT_FLYING" -> "agent_flying"
      [] OTHER -> name

(***************************************************************************)
(* Paths                                                                    *)
(***************************************************************************)
ScriptsDir == "<repo>/scripts"
RepoRoot == "<repo>"

LSLFunctionsDir == "../src/content/docs/script/lsl-reference/functions"
SLuaFunctionsDir == "../src/content/docs/script/slua-reference/functions"
LSLEventsDir == "../src/content/docs/script/lsl-reference/events"
SLuaEventsDir == "../src/content/docs/script/slua-reference/events"
LSLConstantsDir == "../src/content/docs/script/lsl-reference/constants"
SLuaConstantsDir == "../src/content/docs/script/slua-reference/constants"
OutputDirs ==
    {LSLFunctionsDir, SLuaFunctionsDir, LSLEventsDir, SLuaEventsDir,
     LSLConstantsDir, SLuaConstantsDir}

\* path.join(base, rel) for a relative directory.
JoinDir(base, rel) == <<base, rel>>

\* generateFor: filename and filepath.
Filepath(name, outputDir) ==
    [dir |-> JoinDir(ScriptsDir, outputDir), file |-> <<ToLowerCase(name), ".mdx">>]

(***************************************************************************)
(* generateFor                                                              *)
(***************************************************************************)
\* The front-matter with the tooltip taken as it is.
FrontmatterYamlRawTooltip(name, tooltip) ==
    <<"title: ", name>> \o
    (IF Truthy(tooltip) THEN <<"\ndescription: ">> \o tooltip ELSE <<>>)

\* dump(frontmatter).trim()
FrontmatterYaml(name, tooltip) ==
    <<"title: ", name>> \o
    (IF Truthy(tooltip)
     THEN <<"\ndescription: ">> \o ReplaceEscapedNewlines(tooltip)
     ELSE <<>>)

Header(name, tooltip, component) ==
    <<"---\n">> \o FrontmatterYaml(name, tooltip) \o
    <<"\n---\n\nimport ", component, " from '@components/", component, ".astro';\n\n<",
      component, " name=\"", name, "\" />\n\n", MARKER_COMMENT>>

\* The try/catch around the read of the existing file; readFails: fs.readFile
\* rejects although the file exists (no permission, too many open files, I/O error).
ExistingContent(fsys, filepath, readFails) ==
    IF filepath \in DOMAIN fsys /\ ~readFails
    THEN LET fileContent == fsys[filepath]
             markerIndex == IndexOf(fileContent, MARKER_COMMENT)
         IN  IF markerIndex /= -1
             THEN Substring(fileContent, markerIndex + 1)
             ELSE <<>>
    ELSE <<"\n\n", EXAMPLE_TEXT>>

NewContent(fsys, name, tooltip, component, outputDir, readFails) ==
    Header(name, tooltip, component)
        \o ExistingContent(fsys, Filepath(name, outputDir), readFails)

\* fs.mkdir(outputDir, {recursive: true}): outputDir is resolved against the working directory.
MkdirTarget(wd, outputDir) == JoinDir(wd, outputDir)

(***************************************************************************)
(* lsl-definitions.ts: mapper                                               *)
(* A JavaScript object is a function from its own keys to values; a key the *)
(* source omits is outside the DOMAIN.                                      *)
(***************************************************************************)
EmptyObject == [k \in {} |-> 0]

\* convertTooltip without the g flag of the pattern: the first sequence only.
RECURSIVE ConvertTooltipFirstOnly(_)
ConvertTooltipFirstOnly(tooltip) ==
    IF Len(tooltip) = 0 THEN <<>>
    ELSE IF Len(tooltip) >= 2 /\ tooltip[1] = BS /\ tooltip[2] = "n"
         THEN <<NL>> \o SubSeq(tooltip, 3, Len(tooltip))
         ELSE <<tooltip[1]>> \o ConvertTooltipFirstOnly(Tail(tooltip))

\* convertTooltip: String.prototype.replace on the tooltip.
ConvertTooltip(tooltip) == ReplaceEscapedNewlines(tooltip)

\* convertArguments: args[key] = record[key] for every key of every record, in order.
RECURSIVE MergeArguments(_, _, _)
MergeArguments(argRecords, i, args) ==
    IF i > Len(argRecords) THEN args
    ELSE MergeArguments(argRecords, i + 1, argRecords[i] @@ args)

\* convertArguments keeping the first occurrence of a name instead of the last.
RECURSIVE MergeArgumentsFirstWins(_, _, _)
MergeArgumentsFirstWins(argRecords, i, args) ==
    IF i > Len(argRecords) THEN args
    ELSE MergeArgumentsFirstWins(argRecords, i + 1, args @@ argRecords[i])

ConvertArgumentsFirstWins(argRecords) == MergeArgumentsFirstWins(argRecords, 1, EmptyObject)

ConvertArguments(argRecords) == MergeArguments(argRecords, 1, EmptyObject)

\* obj[key] || false, for a flag that is a boolean when present.
OrFalse(obj, key) == IF key \in DOMAIN obj /\ obj[key] THEN obj[key] ELSE FALSE

\* outKey: obj[key]; the result has no value for outKey when obj has none for key.
Copy(obj, key, outKey) == IF key \in DOMAIN obj THEN outKey :> obj[key] ELSE EmptyObject

\* fn.arguments ? convertArguments(fn.arguments) : {}
ArgumentsOf(obj) ==
    IF "arguments" \in DOMAIN obj THEN ConvertArguments(obj["arguments"]) ELSE EmptyObject

ConvertConstant(name, c) ==
    [name |-> name, tooltip |-> ConvertTooltip(c["tooltip"])]
        @@ Copy(c, "value", "value") @@ Copy(c, "type", "type")

\* obj[key] || 0 under outKey.
CopyOrZero(obj, key, outKey) == outKey :> (IF key \in DOMAIN obj THEN obj[key] ELSE 0)

\* convertLSLDefinitions with the costs defaulted to zero: energy: fn.energy || 0.
ConvertFunctionCostsDefaulted(name, fn) ==
    [name |-> name,
     tooltip |-> ConvertTooltip(fn["tooltip"]),
     deprecated |-> OrFalse(fn, "deprecated"),
     experience |-> OrFalse(fn, "experience"),
     lindenExperience |-> OrFalse(fn, "linden-experience"),
     godMode |-> OrFalse(fn, "god-mode"),
     arguments |-> ArgumentsOf(fn)]
        @@ Copy(fn, "return", "returnType")
        @@ CopyOrZero(fn, "energy", "energy")
        @@ CopyOrZero(fn, "sleep", "sleep")

ConvertFunction(name, fn) ==
    [name |-> name,
     tooltip |-> ConvertTooltip(fn["tooltip"]),
     deprecated |-> OrFalse(fn, "deprecated"),
     experience |-> OrFalse(fn, "experience"),
     lindenExperience |-> OrFalse(fn, "linden-experience"),
     godMode |-> OrFalse(fn, "god-mode"),
     arguments |-> ArgumentsOf(fn)]
        @@ Copy(fn, "return", "returnType")
        @@ Copy(fn, "energy", "energy")
        @@ Copy(fn, "sleep", "sleep")

ConvertEvent(name, ev) ==
    [name |-> name,
     tooltip |-> ConvertTooltip(ev["tooltip"]),
     deprecated |-> OrFalse(ev, "deprecated"),
     experience |-> OrFalse(ev, "experience"),
     lindenExperience |-> OrFalse(ev, "linden-experience"),
     godMode |-> OrFalse(ev, "god-mode"),
     arguments |-> ArgumentsOf(ev)]

\* for (const name in rawDoc[key]): no iteration when the collection is missing.
Collection(rawDoc, key) == IF key \in DOMAIN rawDoc THEN rawDoc[key] ELSE EmptyObject

\* convertTooltip(undefined) raises a TypeError (undefined has no replace).
ConvertThrows(rawDoc) ==
    \E key \in {"constants", "functions", "events"} :
        \E name \in DOMAIN Collection(rawDoc, key) :
            "tooltip" \notin DOMAIN Collection(rawDoc, key)[name]

ConvertLSLDefinitions(rawDoc) ==
    [constants |-> [name \in DOMAIN Collection(rawDoc, "constants") |->
                        ConvertConstant(name, rawDoc["constants"][name])],
     functions |-> [name \in DOMAIN Collection(rawDoc, "functions") |->
                        ConvertFunction(name, rawDoc["functions"][name])],
     events |-> [name \in DOMAIN Collection(rawDoc, "events") |->
                        ConvertEvent(name, rawDoc["events"][name])]]
        @@ Copy(rawDoc, "llsd-lsl-syntax-version", "syntaxVersion")

(***************************************************************************)
(* lsl-definitions.ts: cache and accessors                                  *)
(***************************************************************************)
Null == [t |-> "null"]
JsUndefined == [t |-> "undefined"]
Thrown == [t |-> "throw"]

\* Keys every object literal inherits from Object.prototype.
ObjectPrototypeKeys == {"constructor", "toString"}

\* obj[key] on an object created by an object literal.
PropertyOf(obj, key) ==
    IF key \in DOMAIN obj THEN [t |-> "object", v |-> obj[key]]
    ELSE IF key \in ObjectPrototypeKeys THEN [t |-> "inherited", key |-> key]
    ELSE JsUndefined

\* The cache after getLSLDefinitions() ran: filled only when the mapper returned.
CacheAfterGet ==
    IF cachedDefinitions /= Null THEN cachedDefinitions
    ELSE IF ConvertThrows(raw) THEN Null
    ELSE [t |-> "doc", id |-> nparse + 1, v |-> ConvertLSLDefinitions(raw)]

\* getLSLDefinitions(), as called directly or from an accessor.
GetLSLDefinitions ==
    /\ cachedDefinitions' = CacheAfterGet
    /\ nparse' = IF cachedDefinitions = Null THEN nparse + 1 ELSE nparse

CallGetLSLDefinitions ==
    /\ ncalls < MaxCalls
    /\ GetLSLDefinitions
    /\ ret' = IF CacheAfterGet = Null THEN Thrown
              ELSE [t |-> "definitions", id |-> CacheAfterGet.id]
    /\ ncalls' = ncalls + 1
    /\ UNCHANGED <<raw, notCache>>

\* getConstant / getFunction / getEvent: definitions[collection][name]
CallAccessor(collection, name) ==
    /\ ncalls < MaxCalls
    /\ GetLSLDefinitions
    /\ ret' = IF CacheAfterGet = Null THEN Thrown
              ELSE [t |-> "value", collection |-> collection, name |-> name,
                    id |-> CacheAfterGet.id,
                    v |-> PropertyOf(CacheAfterGet.v[collection], name)]
    /\ ncalls' = ncalls + 1
    /\ UNCHANGED <<raw, notCache>>

GetConstant(name) == CallAccessor("constants", name)
GetFunction(name) == CallAccessor("functions", name)
GetEvent(name) == CallAccessor("events", name)

(***************************************************************************)
(* One page under regeneration and contributor edits.                       *)
(* generateFor is called and awaited to completion (no other call runs in   *)
(* between); contributors edit the page between calls.                      *)
(***************************************************************************)
PageNames == {"llAbs"}
PageComponents == {"LSLFunction"}
PageDirs == {LSLFunctionsDir}
PageTooltips == {Undefined, <<"a">>, <<"a", BS, "n", "b">>, <<MARKER_COMMENT>>}
PagePaths == {Filepath(n, d) : n \in PageNames, d \in PageDirs}

\* Text a contributor types below the marker line.
UserTexts == {<<>>, <<"\n\n", "x">>, <<"\n", MARKER_COMMENT, "x">>}
\* Pages written by hand, without the generated header.
HandWritten == {<<"x">>, <<"x", MARKER_COMMENT, "y">>}

NoArgs == <<>>

PageInit ==
    /\ fs = <<>>
    /\ owned = <<>>
    /\ dirs \in {{}, {JoinDir(ScriptsDir, d) : d \in PageDirs}}
    /\ cwd \in {ScriptsDir, RepoRoot}
    /\ last = [called |-> FALSE]
    /\ fresh = NoArgs
    /\ nruns = 0
    /\ nedits = 0
    \* the generator is not run as a batch
    /\ defsFile = EmptyObject
    /\ gen = GenIdle
    /\ tasks = {}
    /\ written = {}
    /\ nbatches = 0
    \* the accessors are not called: no definitions are loaded
    /\ raw = EmptyObject
    /\ cachedDefinitions = Null
    /\ nparse = 0
    /\ ret = [t |-> "none"]
    /\ ncalls = 0
    \* no definitions are fetched
    /\ outFile = NoFile
    /\ outDir = FALSE
    /\ fetcher = FetcherIdle
    /\ netCalls = 0
    /\ nprocs = 0
    /\ norm = NormIdle

\* await generateFor(name, tooltip, component, outputDir)
GenerateFor(name, tooltip, component, outputDir, readFails) ==
    /\ nruns < MaxRuns
    /\ LET filepath == Filepath(name, outputDir)
           newContent == NewContent(fs, name, tooltip, component, outputDir, readFails)
           dirsAfterMkdir == dirs \cup {MkdirTarget(cwd, outputDir)}
           wrote == filepath.dir \in dirsAfterMkdir
           existed == filepath \in DOMAIN fs
       IN  /\ dirs' = dirsAfterMkdir
           /\ fs' = IF wrote THEN (filepath :> newContent) @@ fs ELSE fs
           /\ owned' = IF wrote
                       THEN (filepath :> Len(Header(name, tooltip, component))) @@ owned
                       ELSE owned
           /\ last' = [called |-> TRUE, name |-> name, tooltip |-> tooltip,
                       component |-> component, filepath |-> filepath,
                       existed |-> existed,
                       readFailed |-> existed /\ readFails,
                       before |-> IF existed THEN fs[filepath] ELSE <<>>,
                       beforeOwned |-> IF existed THEN owned[filepath] ELSE 0,
                       repeat |-> fresh = <<name, tooltip, component, outputDir>>,
                       outcome |-> IF wrote THEN "written" ELSE "rejected",
                       after |-> newContent]
           /\ fresh' = IF wrote THEN <<name, tooltip, component, outputDir>> ELSE fresh
    /\ nruns' = nruns + 1
    /\ UNCHANGED <<cwd, nedits, notPage>>

\* A contributor replaces the text below the marker line of a generated page.
UserEditBelow(p, text) ==
    /\ nedits < MaxEdits
    /\ p \in DOMAIN fs
    /\ owned[p] > 0
    /\ fs' = [fs EXCEPT ![p] = SubSeq(fs[p], 1, owned[p]) \o text]
    /\ fresh' = NoArgs
    /\ nedits' = nedits + 1
    /\ UNCHANGED <<owned, dirs, cwd, last, nruns, notPage>>

\* A contributor adds text right after the component tag, above the marker line.
UserEditAbove(p) ==
    /\ nedits < MaxEdits
    /\ p \in DOMAIN fs
    /\ owned[p] > 0
    /\ fs[p][owned[p]] = MARKER_COMMENT
    /\ fs' = [fs EXCEPT ![p] = SubSeq(fs[p], 1, owned[p] - 1) \o <<"x">>
                                 \o SubSeq(fs[p], owned[p], Len(fs[p]))]
    /\ owned' = [owned EXCEPT ![p] = owned[p] + 1]
    /\ fresh' = NoArgs
    /\ nedits' = nedits + 1
    /\ UNCHANGED <<dirs, cwd, last, nruns, notPage>>

\* A contributor saves a hand-written page at the path of a generated one.
UserWriteFile(p, text) ==
    /\ nedits < MaxEdits
    /\ fs' = (p :> text) @@ fs
    /\ owned' = (p :> 0) @@ owned
    /\ dirs' = dirs \cup {p.dir}
    /\ fresh' = NoArgs
    /\ nedits' = nedits + 1
    /\ UNCHANGED <<cwd, last, nruns, notPage>>

\* A contributor deletes a page.
UserDeleteFile(p) ==
    /\ nedits < MaxEdits
    /\ p \in DOMAIN fs
    /\ fs' = [q \in DOMAIN fs \ {p} |-> fs[q]]
    /\ owned' = [q \in DOMAIN owned \ {p} |-> owned[q]]
    /\ fresh' = NoArgs
    /\ nedits' = nedits + 1
    /\ UNCHANGED <<dirs, cwd, last, nruns, notPage>>

PageNext ==
    \/ \E n \in PageNames, t \in PageTooltips, c \in PageComponents, d \in PageDirs,
          readFails \in BOOLEAN :
          GenerateFor(n, t, c, d, readFails)
    \/ \E p \in PagePaths, text \in UserTexts : UserEditBelow(p, text)
    \/ \E p \in PagePaths : UserEditAbove(p)
    \/ \E p \in PagePaths, text \in HandWritten : UserWriteFile(p, text)
    \/ \E p \in PagePaths : UserDeleteFile(p)

SpecPage == PageInit /\ [][PageNext]_vars

(***************************************************************************)
(* Claims about one page                                                    *)
(***************************************************************************)
\* The call recorded in last wrote the page.
LastWritten == last.called /\ last.outcome = "written"

\* The text below the marker line that ended the header of the page as it was.
BodyBefore == SubSeq(last.before, last.beforeOwned + 1, Len(last.before))

LastHeader == Header(last.name, last.tooltip, last.component)

\* C1: regenerating an existing generated page whose text after the marker line
\* is T writes the newly composed header followed by exactly T.
C1_ContentPreservation ==
    (LastWritten /\ last.existed /\ ~last.readFailed /\ last.beforeOwned > 0)
        => last.after = LastHeader \o BodyBefore

\* C2: a second generateFor with the same arguments over the unchanged page
\* writes exactly the bytes the first one wrote.
C2_RegenerationIdempotence ==
    (LastWritten /\ last.repeat /\ ~last.readFailed) => last.after = last.before

\* C3: over an existing page without the marker line, generateFor writes the
\* header followed by the default placeholder body, and raises no error.
C3_MissingMarkerFallback ==
    (last.called /\ last.existed /\ ~last.readFailed
        /\ IndexOf(last.before, MARKER_COMMENT) = -1)
        => /\ last.outcome = "written"
           /\ last.after = LastHeader \o <<"\n\n", EXAMPLE_TEXT>>

\* Number of positions of s after position from that hold tok.
Count(s, from, tok) == Cardinality({i \in (from + 1)..Len(s) : s[i] = tok})

\* Position of the end of the component tag in a generated page (0 if none).
TagEnd(s) == IndexOf(s, "\" />\n\n") + 1

\* C4: what a contributor added after the component tag of a generated page
\* is still in the page after the generator ran again.
C4_ContentAfterTagKept ==
    (LastWritten /\ last.existed /\ ~last.readFailed /\ last.beforeOwned > 0
        /\ TagEnd(last.before) > 0)
        => Count(last.after, 0, "x") >= Count(last.before, TagEnd(last.before), "x")

\* C29: on regeneration of a generated page the split is taken at the marker
\* line that ended the header of the page as it was, and the page written holds
\* one header only: nothing of the old header is carried over.
C29_SplitAtHeaderMarker ==
    (LastWritten /\ last.existed /\ ~last.readFailed /\ last.beforeOwned > 0) =>
        /\ IndexOf(last.before, MARKER_COMMENT) + 1 = last.beforeOwned
        /\ Count(last.after, 0, " name=\"") = 1

\* C28: a generateFor call whose read of an existing generated page failed
\* leaves the text below the page's marker line as it was.
C28_UnreadablePageKept ==
    (LastWritten /\ last.existed /\ last.readFailed /\ last.beforeOwned > 0) =>
        SubSeq(last.after, Len(LastHeader) + 1, Len(last.after)) = BodyBefore

\* C18: after a generateFor call the directory that contains its target path
\* exists and the page was written there, whatever the working directory and
\* whether or not the directory existed before the call.
C18_TargetDirectoryCreated ==
    last.called => last.filepath.dir \in dirs /\ last.outcome = "written"

(***************************************************************************)
(* The definitions documents the accessors are exercised on                 *)
(***************************************************************************)
\* A key that may be missing: no value, or one of vals.
Optional(key, vals) == {EmptyObject} \cup {key :> v : v \in vals}

\* One fragment of an arguments sequence: a single-key record.
ArgNames == {"a", "b", "c"}
ArgData == {[type |-> "integer"], [type |-> "string", tooltip |-> <<"t">>]}
Fragments == {n :> d : n \in ArgNames, d \in ArgData}

RECURSIVE SeqsUpTo(_, _)
SeqsUpTo(S, n) ==
    IF n = 0 THEN {<<>>}
    ELSE SeqsUpTo(S, n - 1) \cup {Append(q, x) : q \in {r \in SeqsUpTo(S, n - 1) : Len(r) = n - 1}, x \in S}

ArgSeqs == SeqsUpTo(Fragments, MaxArgs)

BaseFunction == [tooltip |-> <<"a", BS, "n", "b">>, return |-> "integer"]

\* Function entries that differ in cost and flags.
CostAndFlagEntries ==
    {BaseFunction @@ e @@ sl @@ d @@ x @@ l @@ g :
        e \in Optional("energy", {0, 10}),
        sl \in Optional("sleep", {0, 1}),
        d \in Optional("deprecated", {TRUE, FALSE}),
        x \in Optional("experience", {TRUE}),
        l \in Optional("linden-experience", {TRUE}),
        g \in Optional("god-mode", {TRUE})}

\* Function entries that differ in their arguments sequence.
ArgumentEntries == {BaseFunction @@ ("arguments" :> q) : q \in ArgSeqs}

\* A function entry the source gives no tooltip.
NoTooltipEntries == {[return |-> "void"], [return |-> "void", energy |-> 10]}

FunctionEntries == CostAndFlagEntries \cup ArgumentEntries \cup NoTooltipEntries

BaseConstants ==
    [AGENT_FLYING |-> [type |-> "integer", value |-> "1", tooltip |-> <<"a">>]]
BaseEvents ==
    [touch |-> [tooltip |-> <<"a">>,
                arguments |-> <<"num_detected" :> [type |-> "integer"]>>],
     state_entry |-> [tooltip |-> <<"b">>]]

RawDocs ==
    {("llsd-lsl-syntax-version" :> 2) @@
     [constants |-> BaseConstants, events |-> BaseEvents, functions |-> [sayHello |-> fn]] :
        fn \in FunctionEntries}
    \cup {[functions |-> [sayHello |-> BaseFunction], events |-> BaseEvents],
          [constants |-> BaseConstants],
          EmptyObject}

\* Names the accessors are asked for.
QueryNames == {"sayHello", "touch", "AGENT_FLYING", "llNope", "constructor"}

CacheInit ==
    /\ raw \in RawDocs
    /\ cachedDefinitions = Null
    /\ nparse = 0
    /\ ret = [t |-> "none"]
    /\ ncalls = 0
    \* no page is generated in the process that renders the site
    /\ fs = <<>>
    /\ owned = <<>>
    /\ dirs = {}
    /\ cwd = RepoRoot
    /\ last = [called |-> FALSE]
    /\ fresh = NoArgs
    /\ nruns = 0
    /\ nedits = 0
    /\ defsFile = EmptyObject
    /\ gen = GenIdle
    /\ tasks = {}
    /\ written = {}
    /\ nbatches = 0
    /\ outFile = NoFile
    /\ outDir = FALSE
    /\ fetcher = FetcherIdle
    /\ netCalls = 0
    /\ nprocs = 0
    /\ norm = NormIdle

CacheNext ==
    \/ CallGetLSLDefinitions
    \/ \E n \in QueryNames : GetConstant(n)
    \/ \E n \in QueryNames : GetFunction(n)
    \/ \E n \in QueryNames : GetEvent(n)

SpecCache == CacheInit /\ [][CacheNext]_vars

(***************************************************************************)
(* Claims about the cache and the mapper                                    *)
(***************************************************************************)
Loaded == cachedDefinitions /= Null

\* C5: getConstant(n) returns the entry of D.constants named n when n is a key
\* of D.constants and undefined for every other n; likewise getFunction with
\* D.functions and getEvent with D.events.
C5_AccessorLookup ==
    ret.t = "value" =>
        IF ret.name \in DOMAIN cachedDefinitions.v[ret.collection]
        THEN ret.v.t = "object" /\ ret.v.v.name = ret.name
        ELSE ret.v = JsUndefined

\* C6: over any sequence of accessor calls the YAML is parsed and mapped at
\* most once, and every call reads the document instance of that one parse.
C6_ParsedAtMostOnce ==
    /\ nparse <= 1
    /\ ret.t \in {"definitions", "value"} => ret.id = 1

\* The entries of the source that have an arguments sequence, as <<collection, name>>.
EntriesWithArguments ==
    {e \in {<<c, n>> : c \in {"functions", "events"}, n \in QueryNames} :
        /\ e[2] \in DOMAIN Collection(raw, e[1])
        /\ "arguments" \in DOMAIN raw[e[1]][e[2]]}

SourceArguments(e) == raw[e[1]][e[2]]["arguments"]
MergedArguments(e) == cachedDefinitions.v[e[1]][e[2]].arguments

\* Position of the last fragment of q that has key k.
LastWith(q, k) == CHOOSE i \in 1..Len(q) : k \in DOMAIN q[i] /\ \A j \in (i + 1)..Len(q) : k \notin DOMAIN q[j]

KeysOf(q) == UNION {DOMAIN q[i] : i \in 1..Len(q)}

\* C7: every value of a merged arguments mapping is a record whose name is
\* the key it is stored under and whose type is the type the source gives.
C7_ArgumentsCarryNameAndType ==
    Loaded => \A e \in EntriesWithArguments : \A k \in DOMAIN MergedArguments(e) :
        /\ "name" \in DOMAIN MergedArguments(e)[k]
        /\ MergedArguments(e)[k]["name"] = k
        /\ MergedArguments(e)[k]["type"] = SourceArguments(e)[LastWith(SourceArguments(e), k)][k]["type"]

DistinctNames(q) == \A i, j \in 1..Len(q) : i /= j => DOMAIN q[i] \cap DOMAIN q[j] = {}

Orderings(q) ==
    {[i \in 1..Len(q) |-> q[f[i]]] :
        f \in {g \in [1..Len(q) -> 1..Len(q)] : \A i, j \in 1..Len(q) : i /= j => g[i] /= g[j]}}

\* C8: the merge gives the same mapping for every ordering of fragments with
\* distinct names, and for a repeated name the data of its last occurrence.
C8_MergeOrderAndLastWins ==
    Loaded => \A e \in EntriesWithArguments :
        LET q == SourceArguments(e)
            m == MergedArguments(e)
        IN  /\ DOMAIN m = KeysOf(q)
            /\ \A k \in KeysOf(q) : m[k] = q[LastWith(q, k)][k]
            /\ DistinctNames(q) => \A q2 \in Orderings(q) : ConvertArguments(q2) = m

\* C8 witness: a loaded document whose function has two fragments with one
\* name, with different data, and the later one is what the mapping holds.
C8_Witness ==
    /\ Loaded
    /\ \E e \in EntriesWithArguments :
          LET q == SourceArguments(e)
          IN  /\ Len(q) = 2
              /\ DOMAIN q[1] = DOMAIN q[2]
              /\ q[1] /= q[2]
              /\ \A k \in DOMAIN q[2] : MergedArguments(e)[k] = q[2][k]

\* C9: energy and sleep of the parsed function equal the source values when
\* present (0 stays 0) and are absent when the source omits them; each flag is
\* false when its source key is absent.
FlagKeys ==
    {<<"deprecated", "deprecated">>, <<"experience", "experience">>,
     <<"linden-experience", "lindenExperience">>, <<"god-mode", "godMode">>}

C9_CostsAndFlags ==
    Loaded => \A name \in DOMAIN Collection(raw, "functions") :
        LET src == raw["functions"][name]
            out == cachedDefinitions.v["functions"][name]
        IN  /\ \A k \in {"energy", "sleep"} :
                /\ (k \in DOMAIN out) = (k \in DOMAIN src)
                /\ k \in DOMAIN src => out[k] = src[k]
            /\ \A f \in FlagKeys : f[1] \notin DOMAIN src => out[f[2]] = FALSE

\* C9 witness: sayHello with energy 10, sleep 0 and no deprecated key is
\* parsed to energy 10, sleep 0, deprecated false.
C9_Witness ==
    /\ Loaded
    /\ "functions" \in DOMAIN raw
    /\ "sayHello" \in DOMAIN raw["functions"]
    /\ LET src == raw["functions"]["sayHello"]
           out == cachedDefinitions.v["functions"]["sayHello"]
       IN  /\ {"energy", "sleep"} \subseteq DOMAIN src
           /\ src["energy"] = 10 /\ src["sleep"] = 0
           /\ "deprecated" \notin DOMAIN src
           /\ out["energy"] = 10 /\ out["sleep"] = 0 /\ out["deprecated"] = FALSE

\* C23: a call into the definitions module completes, and a function or event the
\* source gives no tooltip has a record without tooltip; one without arguments
\* has an empty arguments record; a flag the source omits is false.
C23_MissingFieldsDefaulted ==
    ncalls > 0 =>
        /\ Loaded
        /\ \A key \in {"functions", "events"} :
              \A name \in DOMAIN Collection(raw, key) :
                  LET src == raw[key][name]
                      out == cachedDefinitions.v[key][name]
                  IN  /\ "tooltip" \notin DOMAIN src => "tooltip" \notin DOMAIN out
                      /\ "arguments" \notin DOMAIN src => out["arguments"] = EmptyObject
                      /\ \A f \in FlagKeys : f[1] \notin DOMAIN src => out[f[2]] = FALSE

(***************************************************************************)
(* generate-docs.js: generateDocs                                           *)
(* generateDocs awaits the definitions, then starts one generateFor call    *)
(* per page without awaiting any of them; the calls run interleaved at      *)
(* their awaits (the read of the existing page, then mkdir and the write).  *)
(***************************************************************************)
\* lslDefs.<collection>[name]?.tooltip
TooltipOf(entry) == IF "tooltip" \in DOMAIN entry THEN entry["tooltip"] ELSE Undefined

\* lslDefs.functions[funcName]?.private
IsPrivate(entry) == "private" \in DOMAIN entry /\ entry["private"]

lslOnlyEvents == {"state_entry", "state_exit"}

Task(name, tooltip, component, outputDir) ==
    [name |-> name, tooltip |-> tooltip, component |-> component,
     outputDir |-> outputDir, pc |-> "read", existed |-> FALSE, existingContent |-> <<>>]

\* The function loop without its skip of private functions.
FunctionTasksPrivateIncluded(lslDefs) ==
    UNION {{Task(n, TooltipOf(lslDefs["functions"][n]), "LSLFunction", LSLFunctionsDir),
            Task(n, TooltipOf(lslDefs["functions"][n]), "SLuaFunction", SLuaFunctionsDir)} :
           n \in DOMAIN lslDefs["functions"]}

\* The generateFor calls of the function loop.
FunctionTasks(lslDefs) ==
    UNION {{Task(n, TooltipOf(lslDefs["functions"][n]), "LSLFunction", LSLFunctionsDir),
            Task(n, TooltipOf(lslDefs["functions"][n]), "SLuaFunction", SLuaFunctionsDir)} :
           n \in {f \in DOMAIN lslDefs["functions"] : ~IsPrivate(lslDefs["functions"][f])}}

\* The event loop without its test of lslOnlyEvents.
EventTasksNoLSLOnly(lslDefs) ==
    UNION {{Task(n, TooltipOf(lslDefs["events"][n]), "LSLEvent", LSLEventsDir),
            Task(n, TooltipOf(lslDefs["events"][n]), "SLuaEvent", SLuaEventsDir)} :
           n \in DOMAIN lslDefs["events"]}

\* The generateFor calls of the event loop.
EventTasks(lslDefs) ==
    {Task(n, TooltipOf(lslDefs["events"][n]), "LSLEvent", LSLEventsDir) :
        n \in DOMAIN lslDefs["events"]}
    \cup {Task(n, TooltipOf(lslDefs["events"][n]), "SLuaEvent", SLuaEventsDir) :
        n \in DOMAIN lslDefs["events"] \ lslOnlyEvents}

\* The generateFor calls of the constant loop.
ConstantTasks(lslDefs) ==
    UNION {{Task(n, TooltipOf(lslDefs["constants"][n]), "LSLConstant", LSLConstantsDir),
            Task(n, TooltipOf(lslDefs["constants"][n]), "SLuaConstant", SLuaConstantsDir)} :
           n \in DOMAIN lslDefs["constants"]}

\* The three console.log lines.
LogLines(lslDefs) ==
    <<[category |-> "functions",
       pages |-> Cardinality(DOMAIN lslDefs["functions"]) * 2,
       entries |-> Cardinality(DOMAIN lslDefs["functions"])],
      [category |-> "events",
       lslPages |-> Cardinality(DOMAIN lslDefs["events"]),
       sluaPages |-> Cardinality(DOMAIN lslDefs["events"] \ lslOnlyEvents),
       entries |-> Cardinality(DOMAIN lslDefs["events"])],
      [category |-> "constants",
       pages |-> Cardinality(DOMAIN lslDefs["constants"]) * 2,
       entries |-> Cardinality(DOMAIN lslDefs["constants"])]>>

\* getLSLDefinitions of generate-docs.js reads 'src/definitions/lsl_definitions.yaml'
\* relative to the working directory.
DefinitionsReadable == cwd = RepoRoot

\* What can be at src/definitions/lsl_definitions.yaml instead of a document with
\* the three collections: no file, text that is not YAML, an empty file.
AbsentFile == [file |-> "absent"]
UnparsableFile == [file |-> "unparsable"]
EmptyFile == [file |-> "empty"]

\* getLSLDefinitions with a fallback: empty definitions when the file cannot be read.
LoadDefinitionsDefaulting(file, readable) ==
    IF ~readable \/ file = AbsentFile
    THEN [ok |-> TRUE,
          v |-> [functions |-> EmptyObject, events |-> EmptyObject, constants |-> EmptyObject]]
    ELSE IF file = UnparsableFile THEN [ok |-> FALSE, v |-> EmptyObject]
    ELSE [ok |-> TRUE, v |-> file]

\* getLSLDefinitions of generate-docs.js: readFile rejects when there is no file,
\* load throws on text that is not YAML; otherwise the document is returned.
LoadDefinitions(file, readable) ==
    IF ~readable \/ file = AbsentFile \/ file = UnparsableFile
    THEN [ok |-> FALSE, v |-> EmptyObject]
    ELSE [ok |-> TRUE, v |-> file]

\* Object.keys(lslDefs.functions), Object.keys(lslDefs.events),
\* Object.keys(lslDefs.constants): a TypeError when a collection is missing.
KeysThrow(lslDefs) == ~({"functions", "events", "constants"} \subseteq DOMAIN lslDefs)

\* node scripts/generate-docs.js, up to the three Object.keys calls that follow
\* await getLSLDefinitions(); a rejection of generateDocs() is not handled and
\* ends the process with status 1.
StartGenerateDocs ==
    /\ gen.pc = "idle"
    /\ nbatches < MaxBatches
    /\ nbatches' = nbatches + 1
    /\ written' = {}
    /\ LET got == LoadDefinitions(defsFile, DefinitionsReadable)
       IN  gen' = IF got.ok /\ ~KeysThrow(got.v)
                  THEN [pc |-> "loaded", loaded |-> TRUE, lslDefs |-> got.v, log |-> <<>>,
                        errors |-> {}, exit |-> "none", started |-> TRUE,
                        source |-> defsFile, fsBefore |-> fs, dirsBefore |-> dirs]
                  ELSE [pc |-> "idle", loaded |-> FALSE, lslDefs |-> <<>>, log |-> <<>>,
                        errors |-> {[stage |-> "load"]}, exit |-> "1", started |-> TRUE,
                        source |-> defsFile, fsBefore |-> fs, dirsBefore |-> dirs]
    /\ UNCHANGED <<defsFile, tasks, fs, owned, dirs, cwd, notDocs>>

\* The synchronous rest of generateDocs: the three loops and the three log lines.
Dispatch ==
    /\ gen.pc = "loaded"
    /\ tasks' = FunctionTasks(gen.lslDefs) \cup EventTasks(gen.lslDefs)
                    \cup ConstantTasks(gen.lslDefs)
    /\ gen' = [gen EXCEPT !.pc = "dispatched", !.log = LogLines(gen.lslDefs)]
    /\ UNCHANGED <<defsFile, written, nbatches, fs, owned, dirs, cwd, notDocs>>

\* generateFor up to the end of the try/catch around fs.readFile.
TaskRead(t, readFails) ==
    /\ t \in tasks
    /\ t.pc = "read"
    /\ tasks' = (tasks \ {t}) \cup
           {[t EXCEPT !.pc = "write",
                      !.existed = Filepath(t.name, t.outputDir) \in DOMAIN fs,
                      !.existingContent =
                          ExistingContent(fs, Filepath(t.name, t.outputDir), readFails)]}
    /\ UNCHANGED <<defsFile, gen, written, nbatches, fs, owned, dirs, cwd, notDocs>>

\* generateFor from fs.mkdir to the end: the page is written, or writeFile rejects;
\* nothing handles the rejection and node ends the process with status 1.
TaskWrite(t) ==
    /\ t \in tasks
    /\ t.pc = "write"
    /\ LET filepath == Filepath(t.name, t.outputDir)
           header == Header(t.name, t.tooltip, t.component)
           dirsAfterMkdir == dirs \cup {MkdirTarget(cwd, t.outputDir)}
       IN  /\ dirs' = dirsAfterMkdir
           /\ IF filepath.dir \in dirsAfterMkdir
              THEN /\ fs' = (filepath :> (header \o t.existingContent)) @@ fs
                   /\ owned' = (filepath :> Len(header)) @@ owned
                   /\ written' = written \cup
                         {[name |-> t.name, component |-> t.component,
                           outputDir |-> t.outputDir, filepath |-> filepath,
                           tooltip |-> t.tooltip, existed |-> t.existed,
                           content |-> header \o t.existingContent]}
                   /\ tasks' = tasks \ {t}
                   /\ gen' = gen
              ELSE /\ tasks' = {}
                   /\ gen' = [gen EXCEPT !.pc = "idle", !.exit = "1",
                                         !.errors = {[stage |-> "write", filepath |-> filepath]}]
                   /\ UNCHANGED <<fs, owned, written>>
    /\ UNCHANGED <<defsFile, nbatches, cwd, notDocs>>

\* Nothing is pending any more: the process ends with status 0.
Exit ==
    /\ gen.pc = "dispatched"
    /\ tasks = {}
    /\ gen' = [gen EXCEPT !.pc = "idle", !.exit = "0"]
    /\ UNCHANGED <<defsFile, tasks, written, nbatches, fs, owned, dirs, cwd, notDocs>>

\* The definitions file changes between two runs of the generator.
ChangeDefinitions(doc) ==
    /\ gen.pc = "idle"
    /\ nbatches < MaxBatches
    /\ doc /= defsFile
    /\ defsFile' = doc
    /\ UNCHANGED <<gen, tasks, written, nbatches, fs, owned, dirs, cwd, notDocs>>

(***************************************************************************)
(* The definitions files the generator is run on                            *)
(***************************************************************************)
Definitions(functions, events, constants) ==
    [functions |-> functions, events |-> events, constants |-> constants]

GenDocs ==
    {Definitions([llAbs |-> [tooltip |-> <<"a">>, private |-> FALSE]], EmptyObject, EmptyObject),
     Definitions([llAbs |-> [tooltip |-> <<"a", BS, "n", "b">>],
                  llSecret |-> [tooltip |-> <<"s">>, private |-> TRUE]], EmptyObject, EmptyObject),
     Definitions([llAbs |-> [tooltip |-> <<"a">>], LLABS |-> [tooltip |-> <<"b">>]],
                 EmptyObject, EmptyObject),
     Definitions([llSecret |-> [private |-> TRUE]], EmptyObject,
                 [AGENT_FLYING |-> [tooltip |-> <<"a">>, type |-> "integer", value |-> "1"]]),
     Definitions(EmptyObject,
                 [state_entry |-> [tooltip |-> <<"a">>], state_exit |-> EmptyObject,
                  touch |-> [tooltip |-> <<"b">>]],
                 EmptyObject),
     Definitions(EmptyObject, EmptyObject, EmptyObject)}

\* Files the generator cannot get a definitions document from.
BrokenDocs ==
    {AbsentFile, UnparsableFile, EmptyFile,
     [functions |-> [llAbs |-> [tooltip |-> <<"a">>]], constants |-> EmptyObject],
     [events |-> [touch |-> [tooltip |-> <<"b">>]], constants |-> EmptyObject]}

AllContentDirs == {JoinDir(ScriptsDir, d) : d \in OutputDirs}
\* A checkout that has the LSL reference directories only.
LSLContentDirs ==
    {JoinDir(ScriptsDir, d) : d \in {LSLFunctionsDir, LSLEventsDir, LSLConstantsDir}}

DocsInit ==
    /\ defsFile \in GenDocs \cup BrokenDocs
    /\ gen = GenIdle
    /\ tasks = {}
    /\ written = {}
    /\ nbatches = 0
    /\ fs = <<>>
    /\ owned = <<>>
    /\ dirs \in {{}, LSLContentDirs, AllContentDirs}
    /\ cwd \in {RepoRoot, ScriptsDir}
    /\ last = [called |-> FALSE]
    /\ fresh = NoArgs
    /\ nruns = 0
    /\ nedits = 0
    /\ raw = EmptyObject
    /\ cachedDefinitions = Null
    /\ nparse = 0
    /\ ret = [t |-> "none"]
    /\ ncalls = 0
    /\ outFile = NoFile
    /\ outDir = FALSE
    /\ fetcher = FetcherIdle
    /\ netCalls = 0
    /\ nprocs = 0
    /\ norm = NormIdle

DocsNext ==
    \/ StartGenerateDocs
    \/ Dispatch
    \/ \E t \in tasks, readFails \in BOOLEAN : TaskRead(t, readFails)
    \/ \E t \in tasks : TaskWrite(t)
    \/ Exit
    \/ \E doc \in GenDocs \cup BrokenDocs : ChangeDefinitions(doc)

SpecDocs == DocsInit /\ [][DocsNext]_vars

(***************************************************************************)
(* Claims about a run of the generator                                      *)
(***************************************************************************)
\* The private functions of the definitions the current run loaded.
PrivateFunctions ==
    {n \in DOMAIN gen.lslDefs["functions"] : IsPrivate(gen.lslDefs["functions"][n])}

\* C10: a run of the generator writes no page for a function flagged private,
\* neither in the LSL functions directory nor in the SLua functions directory.
C10_PrivateFunctionsSkipped ==
    gen.pc \in {"loaded", "dispatched"} =>
        \A n \in PrivateFunctions :
            /\ \A t \in tasks : ~(t.name = n /\ t.outputDir \in {LSLFunctionsDir, SLuaFunctionsDir})
            /\ \A w \in written : ~(w.name = n /\ w.outputDir \in {LSLFunctionsDir, SLuaFunctionsDir})

\* C10 witness: a run whose definitions hold a private function has written
\* all its pages, those of a public function among them.
C10_Witness ==
    /\ gen.pc = "dispatched"
    /\ tasks = {}
    /\ PrivateFunctions /= {}
    /\ \E w \in written : w.outputDir = LSLFunctionsDir
    /\ \E w \in written : w.outputDir = SLuaFunctionsDir

\* The names of the entries for which the current run started or finished a
\* generateFor call into the directory dir.
NamesStarted(dir) ==
    {t.name : t \in {x \in tasks : x.outputDir = dir}}
        \cup {w.name : w \in {x \in written : x.outputDir = dir}}

\* The names of the entries whose page in the directory dir the current run wrote.
NamesWritten(dir) == {w.name : w \in {x \in written : x.outputDir = dir}}

\* The run loaded the definitions and ended with status 0.
EndedWell == gen.pc = "idle" /\ gen.loaded /\ gen.exit = "0"

\* C11: once the loops of generateDocs have run, a generateFor call into the LSL
\* events directory exists for every event of the definitions, and one into the
\* SLua events directory exactly for the events other than state_entry and
\* state_exit; a run that ends with status 0 has written exactly these pages.
C11_EventPages ==
    /\ (gen.pc = "dispatched" =>
          /\ NamesStarted(LSLEventsDir) = DOMAIN gen.lslDefs["events"]
          /\ NamesStarted(SLuaEventsDir) =
                DOMAIN gen.lslDefs["events"] \ {"state_entry", "state_exit"})
    /\ (EndedWell =>
          /\ NamesWritten(LSLEventsDir) = DOMAIN gen.lslDefs["events"]
          /\ NamesWritten(SLuaEventsDir) =
                DOMAIN gen.lslDefs["events"] \ {"state_entry", "state_exit"})

\* C11 witness: a run over definitions with state_entry, state_exit and touch ended
\* with status 0; touch has both pages, the two LSL-only events have one each.
C11_Witness ==
    /\ EndedWell
    /\ {"state_entry", "state_exit", "touch"} \subseteq DOMAIN gen.lslDefs["events"]
    /\ NamesWritten(LSLEventsDir) = {"state_entry", "state_exit", "touch"}
    /\ NamesWritten(SLuaEventsDir) = {"touch"}

\* Every generateFor call the loops of generateDocs make for the definitions the
\* current run loaded.
AllTasks == FunctionTasks(gen.lslDefs) \cup EventTasks(gen.lslDefs) \cup ConstantTasks(gen.lslDefs)

\* The current run wrote the page of the call t.
PageWritten(t) == \E w \in written : w.name = t.name /\ w.outputDir = t.outputDir

\* The directory of the page of the call t exists, or the call's own mkdir creates it.
CanWrite(t) ==
    Filepath(t.name, t.outputDir).dir \in dirs \cup {MkdirTarget(cwd, t.outputDir)}

\* The run loaded the definitions and the process has ended.
Ended == gen.pc = "idle" /\ gen.loaded /\ gen.exit /= "none"

\* C16: when a run of the generator has ended, every (entry, variant) pair whose
\* own directory creation and write can succeed has its page written, whatever
\* happened to the other pairs.
C16_FailureIsolation ==
    Ended => \A t \in AllTasks : CanWrite(t) => PageWritten(t)

\* The process reported the failure of the call t.
Reported(t) ==
    \E e \in gen.errors : e.stage = "write" /\ e.filepath = Filepath(t.name, t.outputDir)

\* C17: when a run of the generator has ended, every pair whose page was not
\* generated has been reported, and the exit status is non-zero exactly when
\* there is such a pair.
C17_FailuresReported ==
    Ended =>
        /\ \A t \in AllTasks : ~PageWritten(t) => Reported(t)
        /\ (gen.exit /= "0") <=> (\E t \in AllTasks : ~PageWritten(t))

\* The component of the pages of a directory, and the collection it documents.
ComponentOf(dir) ==
    CASE dir = LSLFunctionsDir -> "LSLFunction"
      [] dir = SLuaFunctionsDir -> "SLuaFunction"
      [] dir = LSLEventsDir -> "LSLEvent"
      [] dir = SLuaEventsDir -> "SLuaEvent"
      [] dir = LSLConstantsDir -> "LSLConstant"
      [] dir = SLuaConstantsDir -> "SLuaConstant"

KindOf(dir) ==
    CASE dir \in {LSLFunctionsDir, SLuaFunctionsDir} -> "functions"
      [] dir \in {LSLEventsDir, SLuaEventsDir} -> "events"
      [] dir \in {LSLConstantsDir, SLuaConstantsDir} -> "constants"

\* The page of a new file, piece by piece.
NewPage(name, entry, component) ==
    <<"---\n", "title: ", name>>
    \o (IF "tooltip" \in DOMAIN entry /\ entry["tooltip"] /= <<>>
        THEN <<"\ndescription: ">> \o ReplaceEscapedNewlines(entry["tooltip"])
        ELSE <<>>)
    \o <<"\n---\n\nimport ", component, " from '@components/", component, ".astro';\n\n<",
         component, " name=\"", name, "\" />\n\n">>
    \o <<MARKER_COMMENT>>
    \o <<"\n\n", EXAMPLE_TEXT>>

\* The pages the current run wrote for the entry n into the directories ds.
PagesOf(n, ds) == {w \in written : w.name = n /\ w.outputDir \in ds}

\* C19: every page written for a file that did not exist is front-matter (title,
\* and the description with escaped newlines replaced when there is a tooltip),
\* the import and one invocation of the component of its (kind, language) pair,
\* the marker line and the default body; a run that ends with status 0 has
\* written exactly two pages, one LSL and one SLua, for every constant and every
\* function that is not private.
C19_NewPageLayout ==
    /\ \A w \in written :
          ~w.existed =>
              w.content = NewPage(w.name, gen.lslDefs[KindOf(w.outputDir)][w.name],
                                  ComponentOf(w.outputDir))
    /\ (EndedWell =>
          /\ \A n \in DOMAIN gen.lslDefs["constants"] :
                /\ Cardinality(PagesOf(n, {LSLConstantsDir, SLuaConstantsDir})) = 2
                /\ {w.outputDir : w \in PagesOf(n, {LSLConstantsDir, SLuaConstantsDir})}
                      = {LSLConstantsDir, SLuaConstantsDir}
          /\ \A n \in DOMAIN gen.lslDefs["functions"] :
                ~IsPrivate(gen.lslDefs["functions"][n]) =>
                    /\ Cardinality(PagesOf(n, {LSLFunctionsDir, SLuaFunctionsDir})) = 2
                    /\ {w.outputDir : w \in PagesOf(n, {LSLFunctionsDir, SLuaFunctionsDir})}
                          = {LSLFunctionsDir, SLuaFunctionsDir})

\* C19 witness: a first run over definitions with the constant AGENT_FLYING ended
\* with status 0 and wrote its two pages, both new, with the description.
C19_Witness ==
    /\ EndedWell
    /\ "AGENT_FLYING" \in DOMAIN gen.lslDefs["constants"]
    /\ \A d \in {LSLConstantsDir, SLuaConstantsDir} :
          \E w \in written :
              /\ w.name = "AGENT_FLYING" /\ w.outputDir = d /\ ~w.existed
              /\ "\ndescription: " \in {w.content[i] : i \in 1..Len(w.content)}
              /\ fs[w.filepath] = w.content

(***************************************************************************)
(* scripts/fetch-definitions.js and the start-up check of astro.config.mjs  *)
(* A file is a sequence of bytes and a text a sequence of characters; an    *)
(* ASCII character and its byte are the same token.  One process runs at a  *)
(* time: the fetch command, or the start-up of the site.                    *)
(***************************************************************************)
DEFAULT_URL ==
    "https://raw.githubusercontent.com/secondlife/lsl-definitions/refs/heads/main/lsl_definitions.yaml"
OUTPUT_PATH == "<repo>/src/definitions/lsl_definitions.yaml"

\* The byte order mark, a byte that is not valid UTF-8, and U+FFFD with its bytes.
BOM == "EF BB BF"
InvalidByte == "FF"
ReplacementChar == "U+FFFD"
ReplacementBytes == "EF BF BD"

\* response.text(): UTF-8 decode, which drops a leading byte order mark and
\* replaces every invalid byte by U+FFFD.
Utf8Decode(bytes) ==
    LET rest == IF Len(bytes) > 0 /\ bytes[1] = BOM THEN Tail(bytes) ELSE bytes
    IN  [i \in 1..Len(rest) |-> IF rest[i] = InvalidByte THEN ReplacementChar ELSE rest[i]]

\* writeFile(path, content, 'utf8'): the UTF-8 encoding of the text.
Utf8Encode(text) ==
    [i \in 1..Len(text) |-> IF text[i] = ReplacementChar THEN ReplacementBytes ELSE text[i]]

\* response.ok
Ok(resp) == resp.status \in 200..299

\* process.argv[2] || DEFAULT_URL
NoArgument == "<undefined>"
UrlOfArgument(arg) == IF arg \in {NoArgument, ""} THEN DEFAULT_URL ELSE arg

\* fetchDefinitions(url) up to its first await.
FetchDefinitionsCall(caller, url, log) ==
    [FetcherIdle EXCEPT !.pc = "fetch", !.caller = caller, !.called = TRUE, !.url = url,
                        !.before = outFile, !.dirBefore = outDir, !.netBefore = netCalls,
                        !.outcome = "running",
                        !.log = log \o << <<"Fetching LSL definitions from: ", url>> >>]

\* The catch block of fetchDefinitions and what its caller does with the rethrown
\* error: the command exits with status 1, the start-up's top-level await rejects.
Failed(f, message) ==
    [f EXCEPT !.pc = "idle", !.outcome = "failed", !.error = message,
              !.log = Append(@, <<"Failed to fetch LSL definitions: ">> \o message),
              !.exit = IF f.caller = "cli" THEN "1" ELSE "rejected"]

\* The end of the try block of fetchDefinitions.
Saved(f) ==
    [f EXCEPT !.pc = "idle", !.outcome = "saved",
              !.log = Append(@, <<"Successfully saved LSL definitions to: ", OUTPUT_PATH>>),
              !.exit = IF f.caller = "cli" THEN "0" ELSE "none"]

\* node scripts/fetch-definitions.js [url]
RunFetchCommand(arg) ==
    /\ fetcher.pc = "idle"
    /\ nprocs < MaxProcs
    /\ fetcher' = FetchDefinitionsCall("cli", UrlOfArgument(arg), <<>>)
    /\ nprocs' = nprocs + 1
    /\ UNCHANGED <<outFile, outDir, netCalls, notFetch>>

\* The start-up without its test of existsSync.
StartUpAlwaysFetches ==
    /\ fetcher.pc = "idle"
    /\ nprocs < MaxProcs
    /\ fetcher' = FetchDefinitionsCall("startup", DEFAULT_URL,
                      << <<"LSL definitions not found, fetching from GitHub...">> >>)
    /\ nprocs' = nprocs + 1
    /\ UNCHANGED <<outFile, outDir, netCalls, notFetch>>

\* astro.config.mjs: if (!fs.existsSync(OUTPUT_PATH)) await fetchDefinitions()
StartUp ==
    /\ fetcher.pc = "idle"
    /\ nprocs < MaxProcs
    /\ fetcher' =
          IF ~outFile.exists
          THEN FetchDefinitionsCall("startup", DEFAULT_URL,
                   << <<"LSL definitions not found, fetching from GitHub...">> >>)
          ELSE [FetcherIdle EXCEPT !.caller = "startup", !.before = outFile,
                                   !.dirBefore = outDir, !.netBefore = netCalls,
                                   !.outcome = "skipped"]
    /\ nprocs' = nprocs + 1
    /\ UNCHANGED <<outFile, outDir, netCalls, notFetch>>

\* fetchDefinitions with a test of the file at its start: nothing is fetched when
\* the file exists.
FetchUnlessFileExists(r, textOk) ==
    /\ fetcher.pc = "fetch"
    /\ netCalls' = IF fetcher.before.exists THEN netCalls ELSE netCalls + 1
    /\ fetcher' =
          IF fetcher.before.exists
          THEN [fetcher EXCEPT !.pc = "idle", !.outcome = "skipped",
                               !.exit = IF fetcher.caller = "cli" THEN "0" ELSE "none"]
          ELSE IF r = NoResponse
          THEN Failed(fetcher, <<"fetch failed">>)
          ELSE IF ~Ok(r)
          THEN Failed([fetcher EXCEPT !.resp = r],
                      <<"HTTP error! status: ", ToString(r.status)>>)
          ELSE IF ~textOk
          THEN Failed([fetcher EXCEPT !.resp = r], <<"terminated">>)
          ELSE [fetcher EXCEPT !.pc = "mkdir", !.resp = r, !.text = Utf8Decode(r.body)]
    /\ UNCHANGED <<outFile, outDir, nprocs, notFetch>>

\* fetchDefinitions without its test of response.ok.
FetchIgnoringStatus(r, textOk) ==
    /\ fetcher.pc = "fetch"
    /\ netCalls' = netCalls + 1
    /\ fetcher' =
          IF r = NoResponse
          THEN Failed(fetcher, <<"fetch failed">>)
          ELSE IF ~textOk
          THEN Failed([fetcher EXCEPT !.resp = r], <<"terminated">>)
          ELSE [fetcher EXCEPT !.pc = "mkdir", !.resp = r, !.text = Utf8Decode(r.body)]
    /\ UNCHANGED <<outFile, outDir, nprocs, notFetch>>

\* await fetch(url), the test of response.ok and await response.text().
\* r = NoResponse: fetch rejects; textOk = FALSE: the body cannot be read.
Fetch(r, textOk) ==
    /\ fetcher.pc = "fetch"
    /\ netCalls' = netCalls + 1
    /\ fetcher' =
          IF r = NoResponse
          THEN Failed(fetcher, <<"fetch failed">>)
          ELSE IF ~Ok(r)
          THEN Failed([fetcher EXCEPT !.resp = r],
                      <<"HTTP error! status: ", ToString(r.status)>>)
          ELSE IF ~textOk
          THEN Failed([fetcher EXCEPT !.resp = r], <<"terminated">>)
          ELSE [fetcher EXCEPT !.pc = "mkdir", !.resp = r, !.text = Utf8Decode(r.body)]
    /\ UNCHANGED <<outFile, outDir, nprocs, notFetch>>

\* await mkdir(dirname(OUTPUT_PATH), {recursive: true}); creating the directory
\* can fail.
Mkdir(ok) ==
    /\ fetcher.pc = "mkdir"
    /\ ok \/ ~outDir
    /\ outDir' = (outDir \/ ok)
    /\ fetcher' = IF ok THEN [fetcher EXCEPT !.pc = "write"]
                  ELSE Failed(fetcher, <<"EACCES: permission denied, mkdir">>)
    /\ UNCHANGED <<outFile, netCalls, nprocs, notFetch>>

\* await writeFile(OUTPUT_PATH, content, 'utf8'): the file is opened for writing
\* (created or truncated) and the bytes are written.  The open can fail, and the
\* write can fail after k bytes.
WriteFile(result, k) ==
    /\ fetcher.pc = "write"
    /\ LET bytes == Utf8Encode(fetcher.text)
       IN  CASE result = "written" ->
                  /\ k = Len(bytes)
                  /\ outFile' = [exists |-> TRUE, content |-> bytes]
                  /\ fetcher' = Saved(fetcher)
             [] result = "open failed" ->
                  /\ k = 0
                  /\ outFile' = outFile
                  /\ fetcher' = Failed(fetcher, <<"EACCES: permission denied, open">>)
             [] result = "write failed" ->
                  /\ k < Len(bytes)
                  /\ outFile' = [exists |-> TRUE, content |-> SubSeq(bytes, 1, k)]
                  /\ fetcher' = Failed(fetcher, <<"ENOSPC: no space left on device, write">>)
    /\ UNCHANGED <<outDir, netCalls, nprocs, notFetch>>

\* Somebody deletes the definitions file between two processes.
DeleteDefinitions ==
    /\ fetcher.pc = "idle"
    /\ outFile.exists
    /\ outFile' = NoFile
    /\ fetcher' = FetcherIdle
    /\ UNCHANGED <<outDir, netCalls, nprocs, notFetch>>

(***************************************************************************)
(* The servers, the command lines and the files the fetcher is run on       *)
(***************************************************************************)
OtherURL == "https://example.org/lsl_definitions.yaml"
CliArguments == {NoArgument, "", OtherURL}

Responses ==
    {[status |-> 200, body |-> <<"f", "e">>],
     [status |-> 200, body |-> <<BOM, "f">>],
     [status |-> 200, body |-> <<"f", InvalidByte>>],
     [status |-> 404, body |-> <<"n">>],
     [status |-> 500, body |-> <<>>]}

OldFile == [exists |-> TRUE, content |-> <<"o", "l", "d">>]

FetchInit ==
    /\ outFile \in {NoFile, OldFile}
    /\ outDir \in {outFile.exists, TRUE}
    /\ fetcher = FetcherIdle
    /\ netCalls = 0
    /\ nprocs = 0
    /\ norm = NormIdle
    /\ fs = <<>>
    /\ owned = <<>>
    /\ dirs = {}
    /\ cwd = RepoRoot
    /\ last = [called |-> FALSE]
    /\ fresh = NoArgs
    /\ nruns = 0
    /\ nedits = 0
    /\ raw = EmptyObject
    /\ cachedDefinitions = Null
    /\ nparse = 0
    /\ ret = [t |-> "none"]
    /\ ncalls = 0
    /\ defsFile = EmptyObject
    /\ gen = GenIdle
    /\ tasks = {}
    /\ written = {}
    /\ nbatches = 0

FetchNext ==
    \/ \E arg \in CliArguments : RunFetchCommand(arg)
    \/ StartUp
    \/ \E r \in Responses \cup {NoResponse}, textOk \in BOOLEAN : Fetch(r, textOk)
    \/ \E ok \in BOOLEAN : Mkdir(ok)
    \/ \E result \in {"written", "open failed", "write failed"},
          k \in 0..Len(Utf8Encode(fetcher.text)) :
          WriteFile(result, k)
    \/ DeleteDefinitions

SpecFetch == FetchInit /\ [][FetchNext]_vars

(***************************************************************************)
(* Claims about the fetcher                                                 *)
(***************************************************************************)
\* C12 as stated: a call of fetchDefinitions made while the definitions file
\* exists makes no network call and leaves the file as it was.
C12_NoopWhenFileExists ==
    (fetcher.called /\ fetcher.before.exists) =>
        netCalls = fetcher.netBefore /\ outFile = fetcher.before

\* C12 as amended: every call of fetchDefinitions, from the command or from the
\* start-up, makes exactly one network call whether or not the definitions file
\* exists, and a call that completes has replaced the file by the text of the
\* response body, encoded as UTF-8.
C12_AlwaysFetches ==
    fetcher.called =>
        /\ netCalls = fetcher.netBefore + (IF fetcher.pc = "fetch" THEN 0 ELSE 1)
        /\ (fetcher.outcome = "saved" =>
              outFile = [exists |-> TRUE,
                         content |-> Utf8Encode(Utf8Decode(fetcher.resp.body))])

\* C12 witness: the fetch command, run while the file existed, fetched and
\* replaced the file.
C12_Witness ==
    /\ fetcher.caller = "cli"
    /\ fetcher.before = OldFile
    /\ fetcher.outcome = "saved"
    /\ netCalls = fetcher.netBefore + 1
    /\ outFile.exists /\ outFile /= OldFile

\* C13: a start-up calls fetchDefinitions exactly when the definitions file is
\* absent; a start-up that finds the file ends its check without a network call
\* and with the file as it was.
C13_StartUpFetchesIffAbsent ==
    fetcher.caller = "startup" =>
        /\ fetcher.called <=> ~fetcher.before.exists
        /\ (fetcher.before.exists =>
              /\ fetcher.pc = "idle"
              /\ netCalls = fetcher.netBefore
              /\ outFile = fetcher.before)

\* C13 witness: a first start-up fetched the absent file, and two later
\* start-ups found it: one network call in three start-ups.
C13_Witness ==
    /\ fetcher.caller = "startup"
    /\ fetcher.outcome = "skipped"
    /\ nprocs >= 3
    /\ netCalls = 1
    /\ outFile.exists

\* C14: when fetchDefinitions has completed, the directory of the output path
\* exists and the file at the output path holds exactly the bytes of the
\* response body.
C14_SavedExactly ==
    fetcher.outcome = "saved" =>
        /\ outDir
        /\ outFile.exists
        /\ outFile.content = fetcher.resp.body

\* The characters of a message.
Pieces(message) == {message[i] : i \in 1..Len(message)}

\* C15: when the response has a status outside 200..299, fetchDefinitions fails
\* with an error whose message holds the status code, the directory and the file
\* are as they were before the call, and the fetch command exits with status 1.
C15_HttpErrorFails ==
    (fetcher.called /\ fetcher.resp /= NoResponse
        /\ (fetcher.resp.status < 200 \/ fetcher.resp.status > 299)) =>
        /\ fetcher.outcome = "failed"
        /\ ToString(fetcher.resp.status) \in Pieces(fetcher.error)
        /\ outDir = fetcher.dirBefore
        /\ outFile = fetcher.before
        /\ fetcher.exit /= "0"
        /\ (fetcher.caller = "cli" => fetcher.exit = "1")

\* C15 witness: the fetch command got a 404 while neither the file nor its
\* directory existed; it exited with status 1 and both are still absent.
C15_Witness ==
    /\ fetcher.caller = "cli"
    /\ fetcher.resp.status = 404
    /\ fetcher.outcome = "failed"
    /\ fetcher.exit = "1"
    /\ ~fetcher.before.exists /\ ~fetcher.dirBefore
    /\ ~outFile.exists /\ ~outDir

\* C20: after a call of fetchDefinitions that failed, the output path holds no
\* file, or the file that was there before the call.
C20_NoPartialFile ==
    fetcher.outcome = "failed" => (outFile.exists => outFile = fetcher.before)

(***************************************************************************)
(* Further claims about a run of the generator                              *)
(***************************************************************************)
\* C22: the generateFor calls of one run that are for different (entry, variant)
\* pairs have different target paths, also when two entry names of one kind
\* differ only in letter case.
C22_DistinctPaths ==
    gen.pc = "dispatched" =>
        \A t1, t2 \in AllTasks :
            (t1.name /= t2.name \/ t1.outputDir /= t2.outputDir) =>
                Filepath(t1.name, t1.outputDir) /= Filepath(t2.name, t2.outputDir)

\* The pages the current run wrote into the directories ds.
PagesIn(ds) == {w \in written : w.outputDir \in ds}

\* C26: in a run that ended with status 0, each printed page count is the number
\* of pages the run generated in that category.
C26_PrintedCounts ==
    EndedWell =>
        /\ gen.log[1].pages = Cardinality(PagesIn({LSLFunctionsDir, SLuaFunctionsDir}))
        /\ gen.log[2].lslPages = Cardinality(PagesIn({LSLEventsDir}))
        /\ gen.log[2].sluaPages = Cardinality(PagesIn({SLuaEventsDir}))
        /\ gen.log[3].pages = Cardinality(PagesIn({LSLConstantsDir, SLuaConstantsDir}))

\* C27: when a run has ended with status 0, the pages on disk are exactly the
\* pages that run generates; no page of an earlier run over other definitions
\* is left.
C27_NoStalePages ==
    EndedWell => DOMAIN fs = {Filepath(t.name, t.outputDir) : t \in AllTasks}

\* The entry the definitions module returns for the name and kind of a written
\* page, on the definitions the run loaded.
Resolved(w) ==
    PropertyOf(ConvertLSLDefinitions(gen.lslDefs)[KindOf(w.outputDir)], w.name)

\* C30: for every page a run wrote, the mapper completes on the definitions the
\* run loaded and the accessor of the page's kind returns an entry with the
\* page's name.
C30_GeneratorAndMapperAgree ==
    \A w \in written :
        /\ ~ConvertThrows(gen.lslDefs)
        /\ Resolved(w).t = "object"
        /\ Resolved(w).v["name"] = w.name

(***************************************************************************)
(* convertTooltip, applied again to its own result                          *)
(***************************************************************************)
\* The characters of the tooltips: backslash, n, newline, and another letter.
TooltipChars == {BS, "n", NL, "a"}
Tooltips == SeqsUpTo(TooltipChars, MaxLen)

\* convertTooltip(t) on the tooltip, or on the result of the call before.
CallConvertTooltip ==
    /\ Len(norm.outs) < MaxApply
    /\ norm' = [norm EXCEPT !.outs =
                   Append(@, ConvertTooltip(IF @ = <<>> THEN norm.input ELSE @[Len(@)]))]
    /\ UNCHANGED notNorm

TooltipInit ==
    /\ norm \in {[input |-> t, outs |-> <<>>] : t \in Tooltips}
    /\ outFile = NoFile
    /\ outDir = FALSE
    /\ fetcher = FetcherIdle
    /\ netCalls = 0
    /\ nprocs = 0
    /\ fs = <<>>
    /\ owned = <<>>
    /\ dirs = {}
    /\ cwd = RepoRoot
    /\ last = [called |-> FALSE]
    /\ fresh = NoArgs
    /\ nruns = 0
    /\ nedits = 0
    /\ raw = EmptyObject
    /\ cachedDefinitions = Null
    /\ nparse = 0
    /\ ret = [t |-> "none"]
    /\ ncalls = 0
    /\ defsFile = EmptyObject
    /\ gen = GenIdle
    /\ tasks = {}
    /\ written = {}
    /\ nbatches = 0

TooltipNext == CallConvertTooltip

SpecTooltip == TooltipInit /\ [][TooltipNext]_vars

\* The text holds a backslash followed by n.
HasEscapedNewline(s) == \E i \in 1..(Len(s) - 1) : s[i] = BS /\ s[i + 1] = "n"

\* C25: a tooltip without a backslash-n sequence is returned as it is, the result
\* of convertTooltip holds no backslash-n sequence, and convertTooltip applied
\* to its own result returns that result.
C25_TooltipIdempotent ==
    /\ (Len(norm.outs) >= 1 =>
          /\ (~HasEscapedNewline(norm.input) => norm.outs[1] = norm.input)
          /\ ~HasEscapedNewline(norm.outs[1]))
    /\ \A i \in 2..Len(norm.outs) : norm.outs[i] = norm.outs[1]

\* C25 witness: backslash backslash n n was normalized twice; the first result
\* is backslash newline n, with its backslash and its n apart, and the second
\* is the same.
C25_Witness ==
    /\ norm.input = <<BS, BS, "n", "n">>
    /\ Len(norm.outs) = 2
    /\ norm.outs[1] = <<BS, NL, "n">>
    /\ norm.outs[2] = <<BS, NL, "n">>

\* The generate command cannot get a definitions document with the three
\* collections from the file it was started on.
CannotParse ==
    \/ cwd /= RepoRoot
    \/ gen.source \in {AbsentFile, UnparsableFile, EmptyFile}
    \/ \E c \in {"functions", "events", "constants"} : c \notin DOMAIN gen.source

\* C24: a run of the generate command that cannot get a parsed definitions
\* document has ended with status 1 without starting a generateFor call; pages
\* and directories are as they were when it started, and nothing was fetched.
C24_AbortsWithoutPages ==
    (gen.started /\ CannotParse) =>
        /\ gen.pc = "idle" /\ gen.exit = "1"
        /\ tasks = {} /\ written = {}
        /\ fs = gen.fsBefore /\ dirs = gen.dirsBefore
        /\ netCalls = 0 /\ fetcher = FetcherIdle /\ outFile = NoFile

\* C24 witness: a first run wrote pages; the definitions file then lost its
\* events collection or went away, and the second run ended with status 1 and
\* the pages as they were.
C24_Witness ==
    /\ gen.started /\ CannotParse
    /\ cwd = RepoRoot
    /\ nbatches = 2
    /\ gen.exit = "1"
    /\ fs /= <<>> /\ fs = gen.fsBefore


(***************************************************************************)
(* The site start-up and the generate command, side by side                 *)
(***************************************************************************)
\* The module of astro.config.mjs has been evaluated: its top-level await of
\* fetchDefinitions() resolved, or the test of existsSync skipped the call.  A
\* rejected await ends the start-up, and no page is rendered.
ConfigLoadedWithoutAwait == fetcher.caller = "startup"

ConfigLoaded ==
    /\ fetcher.caller = "startup"
    /\ fetcher.pc = "idle"
    /\ fetcher.outcome \in {"saved", "skipped"}

\* A page of the site is rendered and asks the mapper for the definitions; raw is
\* what yaml.load gives for the definitions file the site was started on.
RenderPage ==
    /\ ConfigLoaded
    /\ CallGetLSLDefinitions

\* The site is started once.
StartSite ==
    /\ nprocs = 0
    /\ StartUp

BuildDocs ==
    {Definitions(EmptyObject, [touch |-> [tooltip |-> <<"b">>]], EmptyObject),
     [functions |-> [llAbs |-> [tooltip |-> <<"a">>]], constants |-> EmptyObject]}

BuildRaws ==
    {[functions |-> [sayHello |-> BaseFunction], events |-> BaseEvents,
      constants |-> BaseConstants],
     [constants |-> BaseConstants]}

BuildInit ==
    /\ outFile \in {NoFile, OldFile}
    /\ outDir = outFile.exists
    /\ fetcher = FetcherIdle
    /\ netCalls = 0
    /\ nprocs = 0
    /\ raw \in BuildRaws
    /\ cachedDefinitions = Null
    /\ nparse = 0
    /\ ret = [t |-> "none"]
    /\ ncalls = 0
    /\ defsFile \in BuildDocs
    /\ gen = GenIdle
    /\ tasks = {}
    /\ written = {}
    /\ nbatches = 0
    /\ fs = <<>>
    /\ owned = <<>>
    /\ dirs \in {{}, AllContentDirs}
    /\ cwd = RepoRoot
    /\ last = [called |-> FALSE]
    /\ fresh = NoArgs
    /\ nruns = 0
    /\ nedits = 0
    /\ norm = NormIdle

BuildNext ==
    \/ StartSite
    \/ \E r \in Responses \cup {NoResponse}, textOk \in BOOLEAN : Fetch(r, textOk)
    \/ \E ok \in BOOLEAN : Mkdir(ok)
    \/ \E result \in {"written", "open failed", "write failed"},
          k \in 0..Len(Utf8Encode(fetcher.text)) :
          WriteFile(result, k)
    \/ RenderPage
    \/ StartGenerateDocs
    \/ Dispatch
    \/ \E t \in tasks, readFails \in BOOLEAN : TaskRead(t, readFails)
    \/ \E t \in tasks : TaskWrite(t)
    \/ Exit

SpecBuild == BuildInit /\ [][BuildNext]_vars

\* C21: the mapper parses the definitions only after the start-up's fetch has
\* completed or was skipped because the file exists; and in the generate command
\* a generateFor call starts, reads a page, creates a directory or writes a page
\* only after the definitions file has been read and parsed.
C21_TwoStageOrdering ==
    [][/\ (nparse' > nparse) =>
              /\ fetcher.caller = "startup"
              /\ fetcher.pc = "idle"
              /\ fetcher.outcome \in {"saved", "skipped"}
              /\ outFile.exists
       /\ (tasks' /= tasks \/ fs' /= fs \/ dirs' /= dirs) =>
              /\ gen.loaded
              /\ gen.pc \in {"loaded", "dispatched"}
              /\ ~KeysThrow(gen.lslDefs)]_vars

\* C21 witness: the site was started without a definitions file, fetched and saved
\* it, and then parsed the definitions; the generate command wrote a page.
C21_Witness ==
    /\ nparse > 0
    /\ fetcher.outcome = "saved"
    /\ fetcher.netBefore < netCalls
    /\ written /= {}

====
